---- MODULE Spec2Model ----
(***************************************************************************)
(* Session authentication of the subpool-worker admin surface:             *)
(* src/services/auth.js (createJwt, verifyJwt, getAuthCookie,              *)
(* createAuthCookie, refreshJwt) and the admin handler that gates every    *)
(* /admin request behind it (handleAdminRequest, handleLogin,              *)
(* handleLogout, handleApiRequest).                                        *)
(*                                                                         *)
(* Text is a sequence of one-character strings; a binary string (the       *)
(* argument of btoa, the result of atob, the text JSON.stringify returns)  *)
(* is a sequence of character codes.                                       *)
(***************************************************************************)
EXTENDS Integers, Sequences, FiniteSets, Bags, TLC

(***************************************************************************)
(* Characters                                                              *)
(***************************************************************************)

\* The standard base64 alphabet, in value order (value = index - 1).
B64Chars ==
  << "A","B","C","D","E","F","G","H","I","J","K","L","M","N","O","P",
     "Q","R","S","T","U","V","W","X","Y","Z","a","b","c","d","e","f",
     "g","h","i","j","k","l","m","n","o","p","q","r","s","t","u","v",
     "w","x","y","z","0","1","2","3","4","5","6","7","8","9","+","/" >>

\* Every character the model writes into a token or a Cookie header.
AllChars == B64Chars \o << "=", "-", "_", ".", ";", " ", "!" >>

CharSet == { AllChars[i] : i \in 1..Len(AllChars) }

\* The code unit textEncoder.encode / charCodeAt gives a character
\* (an injective numbering of AllChars).
CharCodes == [c \in CharSet |-> CHOOSE i \in 1..Len(AllChars) : AllChars[i] = c]

CharCode(c) == CharCodes[c]

B64Set == { B64Chars[i] : i \in 1..64 }

IsB64Char(c) == c \in B64Set

B64Values == [c \in B64Set |-> (CHOOSE i \in 1..64 : B64Chars[i] = c) - 1]

B64Value(c) == B64Values[c]

\* An outcome of a call that may throw.
Ok(v) == [ok |-> TRUE, v |-> v]

Thrown == [ok |-> FALSE, v |-> <<>>]

(***************************************************************************)
(* String helpers of the JavaScript runtime                                *)
(***************************************************************************)

\* str.replace(/from/g, to) for a one-character pattern: to is a sequence
\* of one character, or <<>> to delete.
ReplaceAll(str, from, to) ==
  IF to = <<>>
  THEN LET Keep(c) == c # from IN SelectSeq(str, Keep)
  ELSE SubSeq([i \in 1..Len(str) |-> IF str[i] = from THEN to[1] ELSE str[i]],
              1, Len(str))

\* str.split(sep) for a one-character separator: always at least one piece.
Split(str, sep) ==
  LET n == Len(str)
      IsSep(i) == str[i] = sep
      Pieces(at) ==
        [k \in 1..(Len(at) + 1) |->
           SubSeq(str,
                  IF k = 1 THEN 1 ELSE at[k - 1] + 1,
                  IF k = Len(at) + 1 THEN n ELSE at[k] - 1)]
      Whole(pieces) == SubSeq(pieces, 1, Len(pieces))
  IN  Whole(Pieces(SelectSeq(SubSeq([i \in 1..n |-> i], 1, n), IsSep)))

RECURSIVE TrimStart(_)
TrimStart(str) ==
  IF str # <<>> /\ Head(str) = " " THEN TrimStart(Tail(str)) ELSE str

RECURSIVE TrimEnd(_)
TrimEnd(str) ==
  IF str # <<>> /\ str[Len(str)] = " "
  THEN TrimEnd(SubSeq(str, 1, Len(str) - 1)) ELSE str

\* str.trim()
Trim(str) == TrimEnd(TrimStart(str))

\* str.startsWith(prefix)
StartsWith(str, prefix) ==
  Len(str) >= Len(prefix) /\ SubSeq(str, 1, Len(prefix)) = prefix

(***************************************************************************)
(* btoa / atob (forgiving-base64) and the base64url wrappers               *)
(***************************************************************************)

BtoaGroups(bytes) ==
  LET n == Len(bytes)
      Byte(j) == IF j <= n THEN bytes[j] ELSE 0
      \* character k (0..3) of the group that starts at byte j
      Char(j, k) ==
        CASE k = 0 -> B64Chars[(Byte(j) \div 4) + 1]
          [] k = 1 -> B64Chars[((Byte(j) % 4) * 16 + (Byte(j + 1) \div 16)) + 1]
          [] k = 2 -> IF j + 1 > n THEN "="
                      ELSE B64Chars[((Byte(j + 1) % 16) * 4
                                       + (Byte(j + 2) \div 64)) + 1]
          [] k = 3 -> IF j + 2 > n THEN "="
                      ELSE B64Chars[(Byte(j + 2) % 64) + 1]
      chars == ((n + 2) \div 3) * 4
  IN  SubSeq([i \in 1..chars |-> Char(((i - 1) \div 4) * 3 + 1, (i - 1) % 4)],
             1, chars)

\* btoa: throws InvalidCharacterError on a code unit above 255.
btoa(bytes) ==
  IF \E i \in 1..Len(bytes) : bytes[i] > 255 THEN Thrown
  ELSE Ok(BtoaGroups(bytes))

\* Decodes the alphabet characters; the bits left over in a final group of
\* two or three characters are discarded without being looked at.
AtobGroups(data) ==
  LET Value(i) == B64Value(data[i])
      \* byte k (0..2) of the group that starts at character i
      Byte(i, k) ==
        CASE k = 0 -> Value(i) * 4 + (Value(i + 1) \div 16)
          [] k = 1 -> (Value(i + 1) % 16) * 16 + (Value(i + 2) \div 4)
          [] k = 2 -> (Value(i + 2) % 4) * 64 + Value(i + 3)
      bytes == (Len(data) * 3) \div 4
  IN  SubSeq([j \in 1..bytes |-> Byte(((j - 1) \div 3) * 4 + 1, (j - 1) % 3)],
             1, bytes)

\* atob: strips ASCII whitespace, drops one or two trailing "=" when the
\* length is a multiple of 4, then throws on a length of 1 mod 4 or on any
\* character outside the alphabet.
atob(str) ==
  LET Decode(data) ==
        IF Len(data) % 4 = 1 THEN Thrown
        ELSE IF \E i \in 1..Len(data) : ~IsB64Char(data[i]) THEN Thrown
        ELSE Ok(AtobGroups(data))
      Strip(noWs, n) ==
        Decode(IF n > 0 /\ n % 4 = 0 /\ noWs[n] = "="
               THEN IF noWs[n - 1] = "="
                    THEN SubSeq(noWs, 1, n - 2)
                    ELSE SubSeq(noWs, 1, n - 1)
               ELSE noWs)
      Sized(noWs) == Strip(noWs, Len(noWs))
  IN  Sized(ReplaceAll(str, " ", <<>>))

\* base64UrlEncode leaving the "=" padding of btoa in place.
base64UrlEncodePadded(bytes) ==
  LET Replaced(b) ==
        IF ~b.ok THEN Thrown
        ELSE Ok(ReplaceAll(ReplaceAll(b.v, "+", <<"-">>), "/", <<"_">>))
  IN  Replaced(btoa(bytes))

base64UrlEncode(bytes) ==
  LET Replaced(b) ==
        IF ~b.ok THEN Thrown
        ELSE Ok(ReplaceAll(ReplaceAll(ReplaceAll(b.v, "+", <<"-">>),
                                      "/", <<"_">>), "=", <<>>))
  IN  Replaced(btoa(bytes))

RECURSIVE PadTo4(_)
PadTo4(str) == IF Len(str) % 4 # 0 THEN PadTo4(Append(str, "=")) ELSE str

base64UrlDecode(str) ==
  atob(PadTo4(ReplaceAll(ReplaceAll(str, "-", <<"+">>), "_", <<"/">>)))

(***************************************************************************)
(* JavaScript values and objects                                           *)
(***************************************************************************)

Num(n) == [t |-> "num", n |-> n, s |-> ""]

Str(s) == [t |-> "str", n |-> 0, s |-> s]

Undefined == [t |-> "undef", n |-> 0, s |-> ""]

\* !!v
Truthy(v) ==
  CASE v.t = "num" -> v.n # 0
    [] v.t = "str" -> v.s # ""
    [] OTHER -> FALSE

\* v < n and v > n for a number n: a string that is not numeric converts to
\* NaN, undefined converts to NaN, and every comparison with NaN is false.
LessThan(v, n) == v.t = "num" /\ v.n < n

GreaterThan(v, n) == v.t = "num" /\ v.n > n

\* An object is the sequence of its own properties in insertion order.
Entry(k, v) == [k |-> k, v |-> v]

HasKey(obj, k) == \E i \in 1..Len(obj) : obj[i].k = k

\* obj[k]
Get(obj, k) ==
  IF HasKey(obj, k)
  THEN obj[CHOOSE i \in 1..Len(obj) : obj[i].k = k].v
  ELSE Undefined

\* { ...obj, k: v }: an existing property keeps its position.
Put(obj, k, v) ==
  IF HasKey(obj, k)
  THEN SubSeq([i \in 1..Len(obj) |-> IF obj[i].k = k THEN Entry(k, v)
                                      ELSE obj[i]], 1, Len(obj))
  ELSE Append(obj, Entry(k, v))

RECURSIVE Without(_, _)
\* const { k, ...rest } = obj
Without(obj, k) ==
  IF obj = <<>> THEN <<>>
  ELSE (IF Head(obj).k = k THEN <<>> ELSE <<Head(obj)>>)
         \o Without(Tail(obj), k)

(***************************************************************************)
(* JSON.stringify / JSON.parse                                             *)
(*                                                                         *)
(* The text is kept compact: an opening and a closing brace, and four      *)
(* code units per property (name, type, two of value).  A string holding a *)
(* character outside Latin-1 serialises to a code unit above 255.          *)
(***************************************************************************)

Keys == << "alg", "typ", "iat", "exp", "iss", "aud", "sub" >>

Strs == << "HS256", "JWT", "web-app", "web-app-users", "admin",
           "other-app", "U+7BA1" >>

NonLatin1 == { "U+7BA1" }

KeyId(k) == CHOOSE i \in 1..Len(Keys) : Keys[i] = k

StrId(s) == CHOOSE i \in 1..Len(Strs) : Strs[i] = s

OpenBrace == 123

CloseBrace == 125

RECURSIVE StringifyEntries(_)
StringifyEntries(obj) ==
  IF obj = <<>> THEN <<>>
  ELSE LET e == Head(obj)
       IN  (CASE e.v.t = "num" ->
                   << KeyId(e.k), 1, e.v.n \div 256, e.v.n % 256 >>
              [] e.v.t = "str" ->
                   << KeyId(e.k), 2, 0,
                      IF e.v.s \in NonLatin1 THEN 256 + StrId(e.v.s)
                      ELSE StrId(e.v.s) >>
              [] OTHER -> <<>>)
             \o StringifyEntries(Tail(obj))

JSONstringify(obj) == <<OpenBrace>> \o StringifyEntries(obj) \o <<CloseBrace>>

RECURSIVE ParseEntries(_, _)
ParseEntries(bytes, acc) ==
  IF bytes = <<>> THEN Ok(acc)
  ELSE IF Len(bytes) < 4 THEN Thrown
  ELSE IF bytes[1] \notin 1..Len(Keys) THEN Thrown
  ELSE IF bytes[2] = 1 THEN
    ParseEntries(SubSeq(bytes, 5, Len(bytes)),
                 Put(acc, Keys[bytes[1]], Num(bytes[3] * 256 + bytes[4])))
  ELSE IF bytes[2] = 2 /\ bytes[3] = 0 /\ bytes[4] \in 1..Len(Strs) THEN
    ParseEntries(SubSeq(bytes, 5, Len(bytes)),
                 Put(acc, Keys[bytes[1]], Str(Strs[bytes[4]])))
  ELSE Thrown

\* JSON.parse: throws SyntaxError on text that is not a serialised object.
JSONparse(bytes) ==
  IF Len(bytes) < 2 THEN Thrown
  ELSE IF bytes[1] # OpenBrace \/ bytes[Len(bytes)] # CloseBrace THEN Thrown
  ELSE ParseEntries(SubSeq(bytes, 2, Len(bytes) - 1), <<>>)

(***************************************************************************)
(* Key import and HMAC                                                     *)
(***************************************************************************)

\* textEncoder.encode(str)
textEncoder(str) == SubSeq([i \in 1..Len(str) |-> CharCode(str[i])], 1, Len(str))

HashPrime == 65521

\* The sum of the codes, each multiplied by its position.
WeightedSum(codes) ==
  BagCardinality([i \in 1..Len(codes) |-> i * codes[i] + 1]) - Len(codes)

\* crypto.subtle.sign('HMAC', key, data): a keyed digest, here of two bytes
\* (like the 32 of SHA-256, a length of 2 mod 3), of the key followed by
\* the data.  Two keys of one length, or two messages of one length, that
\* differ in a single position never share a digest.
HmacSign(key, data) ==
  LET Digest(h) == << h \div 256, h % 256 >>
  IN  Digest(WeightedSum(key \o data) % HashPrime)

\* crypto.subtle.verify('HMAC', key, signature, data)
HmacVerify(key, signature, data) == signature = HmacSign(key, data)

\* getKey importing the same key whatever the secret.
getKeyFixed(secret) ==
  IF secret = <<>> THEN Thrown ELSE Ok(textEncoder(<< "k" >>))

\* getKey: throws on an empty secret (every secret here is a string).
getKey(secret) ==
  IF secret = <<>> THEN Thrown ELSE Ok(textEncoder(secret))

(***************************************************************************)
(* src/services/auth.js                                                    *)
(***************************************************************************)

COOKIE_NAME == << "a","u","t","h","_","t","o","k","e","n" >>

DEFAULT_EXPIRATION == 8 * 60 * 60

ALGORITHM == "HS256"

COOKIE_PATH == "/admin"

TOKEN_ISSUER == "web-app"

TOKEN_AUDIENCE == "web-app-users"

\* A value that may be null.
Some(s) == [some |-> TRUE, s |-> s]

Null == [some |-> FALSE, s |-> <<>>]

\* !x for a string-or-null (or string-or-undefined) x
Falsy(x) == ~x.some \/ x.s = <<>>

\* The outcome of an async function returning a boolean: it returns value,
\* or its promise rejects.
Ret(b) == [threw |-> FALSE, value |-> b]

Rejects == [threw |-> TRUE, value |-> FALSE]

\* logger.warn / logger.error / logger.fatal: a TypeError when the caller
\* passed no logger.  The outcome of the statements "log; return false".
LogThenFalse(logger) == IF logger THEN Ret(FALSE) ELSE Rejects

\* createJwt spreading the payload after the standard claims, so that a
\* claim of the payload replaces the standard claim of the same name.
createJwtPayloadWins(secret, payload, logger, clock) ==
  LET header == << Entry("alg", Str(ALGORITHM)), Entry("typ", Str("JWT")) >>
      standard ==
        << Entry("iat", Num(clock)),
           Entry("exp", Num(clock + DEFAULT_EXPIRATION)),
           Entry("iss", Str(TOKEN_ISSUER)),
           Entry("aud", Str(TOKEN_AUDIENCE)) >>
      NotInPayload(e) == ~HasKey(payload, e.k)
      jwtPayload == SelectSeq(standard, NotInPayload) \o payload
      Joined(partialToken, signature) ==
        IF ~signature.ok THEN Thrown
        ELSE Ok(partialToken \o <<".">> \o signature.v)
      Signed(key, partialToken) ==
        Joined(partialToken,
               base64UrlEncode(HmacSign(key.v, textEncoder(partialToken))))
      Encoded(key, encodedHeader, encodedPayload) ==
        IF ~key.ok \/ ~encodedHeader.ok \/ ~encodedPayload.ok THEN Thrown
        ELSE Signed(key, encodedHeader.v \o <<".">> \o encodedPayload.v)
  IN  IF secret = <<>> THEN Thrown
      ELSE Encoded(getKey(secret),
                   base64UrlEncode(JSONstringify(header)),
                   base64UrlEncode(JSONstringify(jwtPayload)))

\* createJwt(secret, payload, logger) at time clock (epoch seconds): the
\* token, or Thrown.  Both the guard and the catch block end in a throw,
\* with or without a logger.
createJwt(secret, payload, logger, clock) ==
  LET header == << Entry("alg", Str(ALGORITHM)), Entry("typ", Str("JWT")) >>
      jwtPayload ==
        Put(Put(Put(Put(payload, "iat", Num(clock)),
                    "exp", Num(clock + DEFAULT_EXPIRATION)),
                "iss", Str(TOKEN_ISSUER)),
            "aud", Str(TOKEN_AUDIENCE))
      Joined(partialToken, signature) ==
        IF ~signature.ok THEN Thrown
        ELSE Ok(partialToken \o <<".">> \o signature.v)
      Signed(key, partialToken) ==
        Joined(partialToken,
               base64UrlEncode(HmacSign(key.v, textEncoder(partialToken))))
      Encoded(key, encodedHeader, encodedPayload) ==
        IF ~key.ok \/ ~encodedHeader.ok \/ ~encodedPayload.ok THEN Thrown
        ELSE Signed(key, encodedHeader.v \o <<".">> \o encodedPayload.v)
  IN  IF secret = <<>> THEN Thrown
      ELSE Encoded(getKey(secret),
                   base64UrlEncode(JSONstringify(header)),
                   base64UrlEncode(JSONstringify(jwtPayload)))

\* The claim checks with the issued-at comparison off by one: a token is
\* rejected in the second it was issued.
CheckClaimsIatOffByOne(payloadData, logger, clock) ==
  IF Truthy(Get(payloadData, "exp")) /\ LessThan(Get(payloadData, "exp"), clock)
    THEN LogThenFalse(logger)
  ELSE IF Truthy(Get(payloadData, "iat"))
          /\ GreaterThan(Get(payloadData, "iat"), clock - 1)
    THEN LogThenFalse(logger)
  ELSE IF Get(payloadData, "iss") # Str(TOKEN_ISSUER)
          \/ Get(payloadData, "aud") # Str(TOKEN_AUDIENCE)
    THEN LogThenFalse(logger)
  ELSE Ret(TRUE)

\* The claim checks of verifyJwt on the parsed payload (lines 143-164).
CheckClaims(payloadData, logger, clock) ==
  IF Truthy(Get(payloadData, "exp")) /\ LessThan(Get(payloadData, "exp"), clock)
    THEN LogThenFalse(logger)
  ELSE IF Truthy(Get(payloadData, "iat"))
          /\ GreaterThan(Get(payloadData, "iat"), clock)
    THEN LogThenFalse(logger)
  ELSE IF Get(payloadData, "iss") # Str(TOKEN_ISSUER)
          \/ Get(payloadData, "aud") # Str(TOKEN_AUDIENCE)
    THEN LogThenFalse(logger)
  ELSE Ret(TRUE)

\* The try block of verifyJwt examining the payload before the signature:
\* the payload is decoded, parsed and its claims checked first, and the
\* HMAC is verified only for a payload that passed.
VerifyTryClaimsFirst(secret, token, logger, clock) ==
  LET Caught == [caught |-> TRUE, r |-> Rejects]
      Done(r) == IF r.threw THEN Caught ELSE [caught |-> FALSE, r |-> r]
      Checked(payloadData) ==
        IF ~payloadData.ok THEN Caught
        ELSE Done(CheckClaims(payloadData.v, logger, clock))
      Parsed(text) == Checked(IF text.ok THEN JSONparse(text.v) ELSE Thrown)
      Signature(key, header, payload, sig, checked) ==
        IF checked.caught \/ ~checked.r.value THEN checked
        ELSE IF ~HmacVerify(key.v, sig.v,
                            textEncoder(header.s \o <<".">> \o payload.s))
          THEN Done(Ret(FALSE))
        ELSE checked
      Verified(key, header, payload, sig) ==
        IF ~sig.ok THEN Caught
        ELSE Signature(key, header, payload, sig,
                       Parsed(base64UrlDecode(payload.s)))
      Destructured(key, header, payload, signature) ==
        IF ~key.ok THEN Caught
        ELSE IF Falsy(header) \/ Falsy(payload) \/ Falsy(signature)
          THEN Done(LogThenFalse(logger))
        ELSE Verified(key, header, payload, base64UrlDecode(signature.s))
      Pieces(parts) ==
        Destructured(getKey(secret),
                     Some(parts[1]),
                     IF Len(parts) >= 2 THEN Some(parts[2]) ELSE Null,
                     IF Len(parts) >= 3 THEN Some(parts[3]) ELSE Null)
  IN  Pieces(Split(token, "."))

\* The try block of verifyJwt (lines 119-164).  [caught |-> TRUE] is an
\* exception that reaches the catch block, a failed logger call included.
VerifyTry(secret, token, logger, clock) ==
  LET Caught == [caught |-> TRUE, r |-> Rejects]
      Done(r) == IF r.threw THEN Caught ELSE [caught |-> FALSE, r |-> r]
      Checked(payloadData) ==
        IF ~payloadData.ok THEN Caught
        ELSE Done(CheckClaims(payloadData.v, logger, clock))
      Parsed(text) == Checked(IF text.ok THEN JSONparse(text.v) ELSE Thrown)
      Verified(key, header, payload, sig) ==
        IF ~sig.ok THEN Caught
        ELSE IF ~HmacVerify(key.v, sig.v,
                            textEncoder(header.s \o <<".">> \o payload.s))
          THEN Done(Ret(FALSE))
        ELSE Parsed(base64UrlDecode(payload.s))
      Destructured(key, header, payload, signature) ==
        IF ~key.ok THEN Caught
        ELSE IF Falsy(header) \/ Falsy(payload) \/ Falsy(signature)
          THEN Done(LogThenFalse(logger))
        ELSE Verified(key, header, payload, base64UrlDecode(signature.s))
      Pieces(parts) ==
        Destructured(getKey(secret),
                     Some(parts[1]),
                     IF Len(parts) >= 2 THEN Some(parts[2]) ELSE Null,
                     IF Len(parts) >= 3 THEN Some(parts[3]) ELSE Null)
  IN  Pieces(Split(token, "."))

\* verifyJwt(secret, token, logger) at time clock; token is a string or
\* null.  The guard logs outside the try block; the catch block logs too.
verifyJwt(secret, token, logger, clock) ==
  LET Tried(t) == IF t.caught THEN LogThenFalse(logger) ELSE t.r
  IN  IF secret = <<>> \/ Falsy(token) THEN LogThenFalse(logger)
      ELSE Tried(VerifyTry(secret, token.s, logger, clock))

\* One attribute of a Set-Cookie value: "name=value" with the value a piece
\* of text (chars), a number (num) or a word (word).
Attr(name, chars, num, word) ==
  [name |-> name, chars |-> chars, num |-> num, word |-> word]

\* createAuthCookie(token, maxAge, options): the array the code joins with
\* "; "; secure is options.secure, TRUE by default, and the other options
\* are left at their defaults (Domain is empty and left out).  Throws on
\* an empty token.
createAuthCookie(token, maxAge, secure) ==
  IF token = <<>> THEN Thrown
  ELSE Ok(<< Attr("auth_token", token, 0, ""),
             Attr("Path", <<>>, 0, COOKIE_PATH),
             Attr("Max-Age", <<>>, maxAge, ""),
             Attr("HttpOnly", <<>>, 0, "true"),
             Attr("Secure", <<>>, 0, IF secure THEN "true" ELSE "false"),
             Attr("SameSite", <<>>, 0, "Strict") >>)

\* The characters of the attribute names and words.
WordChars ==
  [w \in { "auth_token", "Path", "Max-Age", "HttpOnly", "Secure", "SameSite",
            "true", "false", "Strict", "/admin" } |->
     CASE w = "auth_token" -> COOKIE_NAME
       [] w = "Path" -> << "P","a","t","h" >>
       [] w = "Max-Age" -> << "M","a","x","-","A","g","e" >>
       [] w = "HttpOnly" -> << "H","t","t","p","O","n","l","y" >>
       [] w = "Secure" -> << "S","e","c","u","r","e" >>
       [] w = "SameSite" -> << "S","a","m","e","S","i","t","e" >>
       [] w = "true" -> << "t","r","u","e" >>
       [] w = "false" -> << "f","a","l","s","e" >>
       [] w = "Strict" -> << "S","t","r","i","c","t" >>
       [] w = "/admin" -> << "/","a","d","m","i","n" >>]

Digit == << "0","1","2","3","4","5","6","7","8","9" >>

RECURSIVE NumberText(_)
\* `${n}` for a number n >= 0
NumberText(n) ==
  IF n < 10 THEN << Digit[n + 1] >>
  ELSE Append(NumberText(n \div 10), Digit[(n % 10) + 1])

\* One element of the array: `${name}=${value}`.
AttrText(a) ==
  WordChars[a.name] \o << "=" >>
    \o (IF a.name = "auth_token" THEN a.chars
        ELSE IF a.name = "Max-Age" THEN NumberText(a.num)
        ELSE WordChars[a.word])

RECURSIVE JoinText(_)
\* [...].join('; ') of the array createAuthCookie builds: the value of the
\* Set-Cookie header as text.
JoinText(attrs) ==
  IF attrs = <<>> THEN <<>>
  ELSE IF Len(attrs) = 1 THEN AttrText(attrs[1])
  ELSE AttrText(attrs[1]) \o << ";", " " >> \o JoinText(Tail(attrs))

\* The first element of pieces whose trimmed text starts with prefix.
FindCookie(pieces, prefix) ==
  IF \E i \in 1..Len(pieces) : StartsWith(Trim(pieces[i]), prefix)
  THEN Some(pieces[CHOOSE i \in 1..Len(pieces) :
                     /\ StartsWith(Trim(pieces[i]), prefix)
                     /\ \A j \in 1..(i - 1) :
                          ~StartsWith(Trim(pieces[j]), prefix)])
  ELSE Null

\* getAuthCookie returning the piece before the "=" instead of the one
\* after it.
getAuthCookieName(cookieHeader) ==
  LET Value(authCookie) ==
        IF authCookie.some
        THEN Some(Trim(Split(authCookie.s, "=")[1]))
        ELSE Null
  IN  IF Falsy(cookieHeader) THEN Null
      ELSE Value(FindCookie(Split(cookieHeader.s, ";"),
                            COOKIE_NAME \o <<"=">>))

\* getAuthCookie(request): cookieHeader is the Cookie header or null.
getAuthCookie(cookieHeader) ==
  LET Value(authCookie) ==
        IF authCookie.some
        THEN Some(Trim(Split(authCookie.s, "=")[2]))
        ELSE Null
  IN  IF Falsy(cookieHeader) THEN Null
      ELSE Value(FindCookie(Split(cookieHeader.s, ";"),
                            COOKIE_NAME \o <<"=">>))

\* The outcome of refreshJwt: a token, null, or a rejected promise.
RefreshRet(t) == [threw |-> FALSE, token |-> t]

RefreshRejects == [threw |-> TRUE, token |-> Null]

\* The own properties of the value verifyJwt resolves to when it accepts:
\* that value is the boolean true (line 164), not payloadData, and a
\* boolean has none.
OwnProperties(value) == <<>>

\* refreshJwt handing the presented token back instead of creating one.
refreshJwtSame(secret, token, logger, clock) ==
  LET Catch == IF logger THEN RefreshRet(Null) ELSE RefreshRejects
      Verified(payload) ==
        IF payload.threw THEN Catch
        ELSE IF ~payload.value THEN RefreshRet(Null)
        ELSE RefreshRet(token)
  IN  IF secret = <<>> \/ Falsy(token)
        THEN IF logger THEN RefreshRet(Null) ELSE RefreshRejects
      ELSE Verified(verifyJwt(secret, token, FALSE, clock))

\* refreshJwt creating the new token without looking at what verifyJwt
\* returned.
refreshJwtUnverified(secret, token, logger, clock) ==
  LET Catch == IF logger THEN RefreshRet(Null) ELSE RefreshRejects
      Created(t) == IF t.ok THEN RefreshRet(Some(t.v)) ELSE Catch
      Verified(payload) ==
        IF payload.threw THEN Catch
        ELSE Created(createJwt(secret,
                               Without(Without(OwnProperties(payload.value),
                                               "iat"), "exp"),
                               logger, clock))
  IN  IF secret = <<>> \/ Falsy(token)
        THEN IF logger THEN RefreshRet(Null) ELSE RefreshRejects
      ELSE Verified(verifyJwt(secret, token, FALSE, clock))

\* refreshJwt(secret, token, logger) at time clock.  verifyJwt is called
\* without a logger; originalPayload is what is left of the properties of
\* the value it returned once iat and exp are taken out.
refreshJwt(secret, token, logger, clock) ==
  LET Catch == IF logger THEN RefreshRet(Null) ELSE RefreshRejects
      Created(t) == IF t.ok THEN RefreshRet(Some(t.v)) ELSE Catch
      Verified(payload) ==
        IF payload.threw THEN Catch
        ELSE IF ~payload.value THEN RefreshRet(Null)
        ELSE Created(createJwt(secret,
                               Without(Without(OwnProperties(payload.value),
                                               "iat"), "exp"),
                               logger, clock))
  IN  IF secret = <<>> \/ Falsy(token)
        THEN IF logger THEN RefreshRet(Null) ELSE RefreshRejects
      ELSE Verified(verifyJwt(secret, token, FALSE, clock))

(***************************************************************************)
(* The simpler implementation of the same functions (src/unnamed/part_000) *)
(***************************************************************************)

\* getKey of the simpler implementation: no guard of its own; importKey
\* refuses key data of length zero.
getKeySimple(secret) ==
  IF secret = <<>> THEN Thrown ELSE Ok(textEncoder(secret))

\* verifyJwt(secret, token) of the simpler implementation at time clock:
\* every failure and every exception ends in false, and what it returns
\* for a token whose signature verifies is payloadData.exp > now.
verifyJwtSimple(secret, token, clock) ==
  LET Expiry(payloadData) ==
        IF ~payloadData.ok THEN Ret(FALSE)
        ELSE Ret(GreaterThan(Get(payloadData.v, "exp"), clock))
      Parsed(text) == Expiry(IF text.ok THEN JSONparse(text.v) ELSE Thrown)
      Verified(key, header, payload, sig) ==
        IF ~sig.ok THEN Ret(FALSE)
        ELSE IF ~HmacVerify(key.v, sig.v,
                            textEncoder(header.s \o <<".">> \o payload.s))
          THEN Ret(FALSE)
        ELSE Parsed(base64UrlDecode(payload.s))
      Destructured(key, header, payload, signature) ==
        IF ~key.ok THEN Ret(FALSE)
        ELSE IF Falsy(header) \/ Falsy(payload) \/ Falsy(signature)
          THEN Ret(FALSE)
        ELSE Verified(key, header, payload, base64UrlDecode(signature.s))
      Pieces(parts) ==
        Destructured(getKeySimple(secret),
                     Some(parts[1]),
                     IF Len(parts) >= 2 THEN Some(parts[2]) ELSE Null,
                     IF Len(parts) >= 3 THEN Some(parts[3]) ELSE Null)
  IN  IF Falsy(token) THEN Ret(FALSE)
      ELSE Pieces(Split(token.s, "."))

\* getAuthCookie(request) of the simpler implementation.
getAuthCookieSimple(cookieHeader) ==
  LET Value(authCookie) ==
        IF authCookie.some
        THEN Some(Trim(Split(authCookie.s, "=")[2]))
        ELSE Null
  IN  IF Falsy(cookieHeader) THEN Null
      ELSE Value(FindCookie(Split(cookieHeader.s, ";"),
                            COOKIE_NAME \o <<"=">>))

(***************************************************************************)
(* The admin handler (handleLogin, handleLogout, handleApiRequest,         *)
(* handleAdminRequest) and the fetch entry point                           *)
(***************************************************************************)

NoCookie == <<>>

\* createResponse(body, status, headers, contentType); setCookie is the
\* Set-Cookie header, NoCookie when headers has none.
createResponse(body, status, setCookie, contentType) ==
  [status |-> status, contentType |-> contentType,
   setCookie |-> setCookie, body |-> body]

JsonType == "text/json; charset=utf-8"

HtmlType == "text/html; charset=utf-8"

NoResponse == createResponse("", 0, NoCookie, "")

LoggedOutText == << "l","o","g","g","e","d","_","o","u","t" >>

InvalidText == << "i","n","v","a","l","i","d" >>

\* What a handler leaves behind: it threw (its promise rejects) or it
\* returned resp; token is the session token it issued, if any; reached is
\* the branch of handleAdminRequest that produced the outcome; isValid is
\* what verifyJwt returned to the gate; config and groups are the stored
\* configuration and subscription groups afterwards.
Outcome(threw, resp, token, reached, isValid, config, groups) ==
  [threw |-> threw, resp |-> resp, token |-> token, reached |-> reached,
   isValid |-> isValid, config |-> config, groups |-> groups]

\* handleLogin(request): body is the request body, json = FALSE when
\* request.json() rejects.
handleLogin(body, password, jwtSecret, clock, config, groups) ==
  LET Responded(token, cookie) ==
        IF ~token.ok \/ ~cookie.ok
          THEN Outcome(TRUE, NoResponse, Null, "login", FALSE, config, groups)
        ELSE Outcome(FALSE, createResponse("success", 200, cookie.v, JsonType),
                     Some(token.v), "login", FALSE, config, groups)
      Issued(token) ==
        Responded(token, IF token.ok THEN createAuthCookie(token.v, 8 * 60 * 60, TRUE)
                         ELSE Thrown)
  IN  IF ~body.json
        THEN Outcome(TRUE, NoResponse, Null, "login", FALSE, config, groups)
      ELSE IF password = "" \/ jwtSecret = <<>>
        THEN Outcome(FALSE, createResponse("error", 500, NoCookie, JsonType),
                     Null, "login", FALSE, config, groups)
      ELSE IF body.password = password
        THEN Issued(createJwt(jwtSecret, <<>>, FALSE, clock))
      ELSE Outcome(FALSE, createResponse("error", 401, NoCookie, JsonType),
                   Null, "login", FALSE, config, groups)

\* handleLogout()
handleLogout ==
  createResponse("success", 200, createAuthCookie(LoggedOutText, 0, TRUE).v, JsonType)

\* { ...oldConfig, ...newConfig }
MergeConfig(old, new) ==
  [k \in (DOMAIN old) \cup (DOMAIN new) |->
     IF k \in DOMAIN new THEN new[k] ELSE old[k]]

\* handleApiRequest(request, url) for a request that passed the gate.
\* pathParts is url.pathname split on "/" without the empty pieces;
\* generated is the value generateToken() returns if it is called.
handleApiRequest(method, pathParts, body, generated, config, groups) ==
  LET part3 == IF Len(pathParts) >= 3 THEN pathParts[3] ELSE ""
      part4 == IF Len(pathParts) >= 4 THEN pathParts[4] ELSE ""
      Reply(resp, c, g) == Outcome(FALSE, resp, Null, "api", TRUE, c, g)
      BadBody == Outcome(TRUE, NoResponse, Null, "api", TRUE, config, groups)
  IN  IF part3 = "logout" /\ method = "POST"
        THEN Reply(handleLogout, config, groups)
      ELSE IF part3 = "config" /\ method = "GET"
        THEN Reply(createResponse("config", 200, NoCookie, JsonType),
                   config, groups)
      ELSE IF part3 = "config" /\ method = "PUT"
        THEN IF ~body.json THEN BadBody
             ELSE Reply(createResponse("success", 200, NoCookie, JsonType),
                        MergeConfig(config, body.config), groups)
      ELSE IF part3 = "groups" /\ method = "GET"
        THEN Reply(createResponse("groups", 200, NoCookie, JsonType),
                   config, groups)
      ELSE IF part3 = "groups" /\ method = "POST"
        THEN IF ~body.json THEN BadBody
             ELSE Reply(createResponse("group", 200, NoCookie, JsonType),
                        config,
                        groups \cup {IF body.token = "" THEN generated
                                     ELSE body.token})
      ELSE IF part3 = "groups" /\ part4 # "" /\ method = "PUT"
        THEN IF ~body.json THEN BadBody
             ELSE Reply(createResponse("group", 200, NoCookie, JsonType),
                        config, groups \cup {part4})
      ELSE IF part3 = "groups" /\ part4 # "" /\ method = "DELETE"
        THEN Reply(createResponse("success", 200, NoCookie, JsonType),
                   config, groups \ {part4})
      ELSE IF part3 = "utils" /\ part4 = "gentoken" /\ method = "GET"
        THEN Reply(createResponse("token", 200, NoCookie, JsonType),
                   config, groups)
      ELSE Reply(createResponse("error", 404, NoCookie, JsonType),
                 config, groups)

\* url.pathname === '/admin/api/login'
IsLoginPath(pathParts) == pathParts = << "admin", "api", "login" >>

\* url.pathname.startsWith('/admin/api/')
IsApiPath(pathParts) ==
  Len(pathParts) >= 3 /\ pathParts[1] = "admin" /\ pathParts[2] = "api"

\* handleAdminRequest letting a request through when verification fails, as
\* long as it presents some token.
handleAdminRequestOpen(request, jwtSecret, password, clock, generated, config, groups) ==
  LET Gate(token, isValid) ==
        IF isValid.threw
          THEN Outcome(TRUE, NoResponse, Null, "verify", FALSE, config, groups)
        ELSE IF isValid.value \/ ~Falsy(token) THEN
          IF IsApiPath(request.path)
            THEN handleApiRequest(request.method, request.path, request.body,
                                  generated, config, groups)
          ELSE Outcome(FALSE,
                       createResponse("adminPage", 200, NoCookie, HtmlType),
                       Null, "page", TRUE, config, groups)
        ELSE Outcome(FALSE,
                     createResponse("loginPage", 401,
                                    createAuthCookie(InvalidText, 0, TRUE).v, HtmlType),
                     Null, "reject", FALSE, config, groups)
      Verified(token) == Gate(token, verifyJwt(jwtSecret, token, FALSE, clock))
  IN  IF jwtSecret = <<>>
        THEN Outcome(FALSE, createResponse("error", 500, NoCookie, JsonType),
                     Null, "config", FALSE, config, groups)
      ELSE IF IsLoginPath(request.path) /\ request.method = "POST"
        THEN handleLogin(request.body, password, jwtSecret, clock, config, groups)
      ELSE Verified(getAuthCookie(request.cookie))

\* handleAdminRequest answering a missing secret like a failed
\* verification.
handleAdminRequestUnauthorized(request, jwtSecret, password, clock, generated, config, groups) ==
  LET Gate(token, isValid) ==
        IF isValid.threw
          THEN Outcome(TRUE, NoResponse, Null, "verify", FALSE, config, groups)
        ELSE IF isValid.value THEN
          IF IsApiPath(request.path)
            THEN handleApiRequest(request.method, request.path, request.body,
                                  generated, config, groups)
          ELSE Outcome(FALSE,
                       createResponse("adminPage", 200, NoCookie, HtmlType),
                       Null, "page", TRUE, config, groups)
        ELSE Outcome(FALSE,
                     createResponse("loginPage", 401,
                                    createAuthCookie(InvalidText, 0, TRUE).v, HtmlType),
                     Null, "reject", FALSE, config, groups)
      Verified(token) == Gate(token, verifyJwt(jwtSecret, token, FALSE, clock))
  IN  IF jwtSecret = <<>>
        THEN Outcome(FALSE,
                     createResponse("loginPage", 401,
                                    createAuthCookie(InvalidText, 0, TRUE).v,
                                    HtmlType),
                     Null, "config", FALSE, config, groups)
      ELSE IF IsLoginPath(request.path) /\ request.method = "POST"
        THEN handleLogin(request.body, password, jwtSecret, clock, config, groups)
      ELSE Verified(getAuthCookie(request.cookie))

\* handleAdminRequest(request).  verifyJwt is called without a logger.
handleAdminRequest(request, jwtSecret, password, clock, generated, config, groups) ==
  LET Gate(token, isValid) ==
        IF isValid.threw
          THEN Outcome(TRUE, NoResponse, Null, "verify", FALSE, config, groups)
        ELSE IF isValid.value THEN
          IF IsApiPath(request.path)
            THEN handleApiRequest(request.method, request.path, request.body,
                                  generated, config, groups)
          ELSE Outcome(FALSE,
                       createResponse("adminPage", 200, NoCookie, HtmlType),
                       Null, "page", TRUE, config, groups)
        ELSE Outcome(FALSE,
                     createResponse("loginPage", 401,
                                    createAuthCookie(InvalidText, 0, TRUE).v, HtmlType),
                     Null, "reject", FALSE, config, groups)
      Verified(token) == Gate(token, verifyJwt(jwtSecret, token, FALSE, clock))
  IN  IF jwtSecret = <<>>
        THEN Outcome(FALSE, createResponse("error", 500, NoCookie, JsonType),
                     Null, "config", FALSE, config, groups)
      ELSE IF IsLoginPath(request.path) /\ request.method = "POST"
        THEN handleLogin(request.body, password, jwtSecret, clock, config, groups)
      ELSE Verified(getAuthCookie(request.cookie))

\* fetch(request, env, ctx): what the client receives.  An exception of the
\* handler becomes a bare 500.
fetch(outcome) ==
  IF outcome.threw
  THEN createResponse("Internal Server Error", 500, NoCookie, "")
  ELSE outcome.resp

(***************************************************************************)
(* State                                                                   *)
(***************************************************************************)

VARIABLES
  secret,         \* env.JWT_SECRET; <<>> when it is not configured
  adminPassword,  \* ConfigService.get('adminPassword'); "" when not set
  now,            \* Math.floor(Date.now() / 1000)
  kvConfig,       \* the stored global configuration
  kvGroups,       \* the tokens of the stored subscription groups
  issued,         \* every token createJwt has returned so far
  last            \* the call in progress: its input and its outcome

vars == << secret, adminPassword, now, kvConfig, kvGroups, issued, last >>

(***************************************************************************)
(* Bounds and inputs                                                       *)
(***************************************************************************)

StartTime == 1000

MaxIssued == 2

K1 == << "k", "1" >>

K2 == << "k", "2" >>

Secrets == { K1, K2 }

NoSecret == <<>>

Password == "hunter2"

\* The instants the clock takes: the start, and the expiry of a token issued
\* at the start and the second after it.
Instants ==
  { StartTime, StartTime + DEFAULT_EXPIRATION,
    StartTime + DEFAULT_EXPIRATION + 1 }

\* The instants at which the token functions are exercised on their own.
JwtInstants == { StartTime, StartTime + DEFAULT_EXPIRATION }

\* Custom claims given to createJwt.
ClaimSets ==
  { <<>>,
    << Entry("sub", Str("admin")) >>,
    << Entry("sub", Str("U+7BA1")) >>,
    << Entry("exp", Num(60000)), Entry("sub", Str("admin")) >>,
    << Entry("iat", Num(1)), Entry("exp", Num(2)),
       Entry("iss", Str("other-app")), Entry("aud", Str("other-app")) >> }

\* The session lifetimes, in seconds, a caller of createJwt asks for: the
\* default and one second.
Lifetimes == { DEFAULT_EXPIRATION, 1 }

\* The maxAge values given to createAuthCookie.
MaxAges == { 0, 3600, DEFAULT_EXPIRATION }

EmptyConfig == [k \in {} |-> ""]

NewConfig == [k \in {"fileName"} |-> "subs"]

GroupTokens == { "g1" }

(***************************************************************************)
(* Tokens presented to the verifier                                        *)
(***************************************************************************)

\* A presented token: text is the token (null when none is presented);
\* kind says how it was obtained; payload and signer are the claims and the
\* secret it was signed with (issued and crafted tokens); orig and pos are
\* the issued token it was altered from and the altered position.
Candidate(kind, text, payload, signer, orig, pos) ==
  [kind |-> kind, text |-> text, payload |-> payload, signer |-> signer,
   orig |-> orig, pos |-> pos]

NoCandidate == Candidate("none", Null, <<>>, <<>>, <<>>, 0)

\* The payload a token carries, read back from its second segment.
PayloadOf(token) == JSONparse(base64UrlDecode(Split(token, ".")[2]).v).v

IssuedRecord(token, signer) ==
  [token |-> token, signer |-> signer, payload |-> PayloadOf(token)]

IatOf(t) == Get(t.payload, "iat").n

ExpOf(t) == Get(t.payload, "exp").n

\* A token a holder of the secret signs over a payload of their choosing
\* (same header, encoding and signature as createJwt).
SignPayload(signer, payload) ==
  LET header == << Entry("alg", Str(ALGORITHM)), Entry("typ", Str("JWT")) >>
      Signed(partialToken) ==
        partialToken \o <<".">>
          \o base64UrlEncode(HmacSign(textEncoder(signer),
                                      textEncoder(partialToken))).v
  IN  Signed(base64UrlEncode(JSONstringify(header)).v \o <<".">>
               \o base64UrlEncode(JSONstringify(payload)).v)

StdPayload(iat, exp, iss, aud) ==
  << Entry("iat", iat), Entry("exp", exp), Entry("iss", iss), Entry("aud", aud) >>

\* Payloads around each claim check, relative to the time clock.
CraftedPayloads(clock) ==
  LET I == Str(TOKEN_ISSUER)
      A == Str(TOKEN_AUDIENCE)
  IN  { StdPayload(Num(clock), Num(clock + 1), I, A),
        StdPayload(Num(clock), Num(clock), I, A),
        StdPayload(Num(clock - 1), Num(clock - 1), I, A),
        StdPayload(Num(clock + 1), Num(clock + 2), I, A),
        StdPayload(Num(clock), Num(clock + 1), Str("other-app"), A),
        StdPayload(Num(clock), Num(clock + 1), I, Str("other-app")),
        Without(StdPayload(Num(clock), Num(clock + 1), I, A), "exp"),
        Without(StdPayload(Num(clock), Num(clock + 1), I, A), "iat"),
        Without(StdPayload(Num(clock), Num(clock + 1), I, A), "iss"),
        Without(StdPayload(Num(clock), Num(clock + 1), I, A), "aud") }

CraftedTokens(signer, clock) ==
  { Candidate("crafted", Some(SignPayload(signer, p)), p, signer, <<>>, 0) :
      p \in CraftedPayloads(clock) }

\* Of these, the ones requests arrive with: expiring now, issued in the
\* future, and from another issuer.
GatePayloads(clock) ==
  LET I == Str(TOKEN_ISSUER)
      A == Str(TOKEN_AUDIENCE)
  IN  { StdPayload(Num(clock), Num(clock), I, A),
        StdPayload(Num(clock + 1), Num(clock + 2), I, A),
        StdPayload(Num(clock), Num(clock + 1), Str("other-app"), A) }

\* The crafted tokens of each secret and instant.
CraftedAt == [s \in Secrets, t \in Instants |-> CraftedTokens(s, t)]

GateCraftedAt ==
  [s \in Secrets, t \in Instants |->
     { c \in CraftedAt[s, t] : c.payload \in GatePayloads(t) }]

IssuedTokens ==
  { Candidate("issued", Some(t.token), t.payload, t.signer, <<>>, 0) :
      t \in issued }

\* token with the character at position i replaced by c
ReplaceAt(token, i, c) ==
  SubSeq([token EXCEPT ![i] = c], 1, Len(token))

\* The characters a token's segments are written in.
B64UrlSet == (B64Set \ { "+", "/" }) \cup { "-", "_" }

\* Every token that differs from an issued one in exactly one character
\* of a segment, replaced by another character of the alphabet (the
\* separators are left in place).
TamperedFrom(t) ==
  UNION { { Candidate("tampered", Some(ReplaceAt(t.token, i, c)), t.payload,
                      t.signer, t.token, i) :
              c \in B64UrlSet \ { t.token[i] } } :
          i \in { j \in 1..Len(t.token) : t.token[j] # "." } }

TamperedTokens == UNION { TamperedFrom(t) : t \in issued }

\* Strings that are not tokens: 'a.b', 'not.b!.segs', 'a.b.!', and ''
Malformed(x) == Candidate("malformed", Some(x), <<>>, <<>>, <<>>, 0)

MalformedTokens ==
  { Malformed(<< "a", ".", "b" >>),
    Malformed(<< "n","o","t",".","b","!",".","s","e","g","s" >>),
    Malformed(<< "a", ".", "b", ".", "!" >>) }

EmptyToken == Malformed(<<>>)

\* Strings with an empty segment: 'a..b', '.a.b'
EmptySegmentTokens ==
  { Malformed(<< "a", ".", ".", "b" >>),
    Malformed(<< ".", "a", ".", "b" >>) }

\* What is appended to a token to give it more segments: '.x', '.x.y', '.'
ExtraSegments ==
  { << ".", "x" >>, << ".", "x", ".", "y" >>, << "." >> }

\* The issued tokens with further segments appended.
ExtendedTokens ==
  { Candidate("extended", Some(t.token \o x), t.payload, t.signer, t.token, 0) :
      t \in issued, x \in ExtraSegments }

\* Text that is not JSON: 'no'
NotJson == << 110, 111 >>

\* A token a holder of the secret signs over a payload segment that does
\* not hold JSON (same header, encoding and signature as createJwt).
SignBytes(signer, bytes) ==
  LET header == << Entry("alg", Str(ALGORITHM)), Entry("typ", Str("JWT")) >>
      Signed(partialToken) ==
        partialToken \o <<".">>
          \o base64UrlEncode(HmacSign(textEncoder(signer),
                                      textEncoder(partialToken))).v
  IN  Signed(base64UrlEncode(JSONstringify(header)).v \o <<".">>
               \o base64UrlEncode(bytes).v)

NotJsonTokens ==
  { Candidate("notjson", Some(SignBytes(s, NotJson)), <<>>, s, <<>>, 0) :
      s \in Secrets }

Absent == Candidate("absent", Null, <<>>, <<>>, <<>>, 0)

(***************************************************************************)
(* Requests                                                                *)
(***************************************************************************)

Body(json, password, config, token) ==
  [json |-> json, password |-> password, config |-> config, token |-> token]

\* No body: request.json() rejects.
NoBody == Body(FALSE, "", EmptyConfig, "")

Request(method, path, cookie, body) ==
  [method |-> method, path |-> path, cookie |-> cookie, body |-> body]

NoRequest == Request("", <<>>, Null, NoBody)

LoginPath == << "admin", "api", "login" >>

\* The Cookie header of a request that presents the candidate.
CookieHeader(c) ==
  IF c.text.some THEN Some(COOKIE_NAME \o <<"=">> \o c.text.s) ELSE Null

\* Cookies of other names a request carries: 'sid=abc', 'theme=dark'.
OtherCookie1 == << "s","i","d","=","a","b","c" >>

OtherCookie2 == << "t","h","e","m","e","=","d","a","r","k" >>

\* The Cookie headers that carry the name=value pair: alone, after, before
\* and between other cookies.
HeadersWith(pair) ==
  { Some(pair),
    Some(OtherCookie1 \o << ";", " " >> \o pair),
    Some(pair \o << ";", " " >> \o OtherCookie2),
    Some(OtherCookie1 \o << ";", " " >> \o pair \o << " ", ";", " " >>
           \o OtherCookie2) }

\* No Cookie header, an empty one, and headers without an auth_token cookie.
HeadersWithout ==
  { Null, Some(<<>>), Some(OtherCookie1),
    Some(OtherCookie1 \o << ";", " " >> \o OtherCookie2) }

\* Cookie values that hold '=': 'ab=cd', 'YQ=='
ValuesWithEquals ==
  { << "a", "b", "=", "c", "d" >>, << "Y", "Q", "=", "=" >> }

\* The tokens cookies are made of: the issued ones, the two fixed texts of
\* handleLogout and of the rejecting branch of handleAdminRequest, and
\* values that hold '='.
CookieTokens ==
  IssuedTokens
    \cup { Candidate("text", Some(x), <<>>, <<>>, <<>>, 0) :
             x \in { LoggedOutText, InvalidText } \cup ValuesWithEquals }

\* POST /admin/api/login with the right password, a wrong one, or no body.
LoginRequests ==
  { Request("POST", LoginPath, Null, b) :
      b \in { Body(TRUE, Password, EmptyConfig, ""),
              Body(TRUE, "letmein", EmptyConfig, ""),
              NoBody } }

\* Every other kind of request under /admin, presenting the candidate c.
GatedRequests(c) ==
  LET h == CookieHeader(c)
      api(x) == << "admin", "api", x >>
  IN  { Request("GET", << "admin" >>, h, NoBody),
        Request("POST", api("logout"), h, NoBody),
        Request("GET", api("config"), h, NoBody),
        Request("PUT", api("config"), h, Body(TRUE, "", NewConfig, "")),
        Request("POST", api("groups"), h, Body(TRUE, "", EmptyConfig, "")),
        Request("DELETE", api("groups") \o << "g1" >>, h, NoBody),
        Request("GET", api("nothing"), h, NoBody) }

\* The tokens requests arrive with.
GateCandidates ==
  {Absent} \cup MalformedTokens \cup IssuedTokens
    \cup (IF secret = NoSecret THEN {} ELSE GateCraftedAt[secret, now])

\* The tokens the token functions are tried on, the altered ones apart.
JwtCandidates ==
  {Absent, EmptyToken} \cup MalformedTokens \cup IssuedTokens
    \cup CraftedAt[secret, now]
    \cup EmptySegmentTokens \cup ExtendedTokens \cup NotJsonTokens

(***************************************************************************)
(* The state machine of the worker                                         *)
(***************************************************************************)

NoOutcome == Outcome(FALSE, NoResponse, Null, "", FALSE, EmptyConfig, {})

\* A call: op is the function called; request, arg (the token presented),
\* claims, argSecret and logger are its input; out, vres and rres are the
\* outcome of handleAdminRequest or createJwt, of verifyJwt, of refreshJwt.
\* lifetime is the session lifetime the caller of createJwt asked for;
\* maxAge and secure are the arguments of createAuthCookie and cookie is
\* what getAuthCookie returned (see WithLifetime, WithCookie).
Call(op, request, arg, claims, argSecret, logger, out, vres, rres) ==
  [op |-> op, request |-> request, arg |-> arg, claims |-> claims,
   argSecret |-> argSecret, logger |-> logger,
   out |-> out, vres |-> vres, rres |-> rres,
   lifetime |-> DEFAULT_EXPIRATION, maxAge |-> 0, secure |-> TRUE,
   cookie |-> Null]

WithLifetime(call, lifetime) == [call EXCEPT !.lifetime = lifetime]

WithCookie(call, maxAge, secure, cookie) ==
  [call EXCEPT !.maxAge = maxAge, !.secure = secure, !.cookie = cookie]

Idle == Call("idle", NoRequest, NoCandidate, <<>>, <<>>, FALSE, NoOutcome,
             Ret(FALSE), RefreshRet(Null))

\* issued, with the token a call has returned added to it.
Record(token, signer) ==
  IF token.some THEN issued \cup { IssuedRecord(token.s, signer) } ELSE issued

Init ==
  /\ secret \in Secrets \cup { NoSecret }
  /\ adminPassword = Password
  /\ now = StartTime
  /\ kvConfig = EmptyConfig
  /\ kvGroups = {}
  /\ issued = {}
  /\ last = Idle

\* The outcome of request becomes the state.
Handled(request, c, g) ==
  LET Becomes(out, tokens) ==
        /\ Cardinality(tokens) <= MaxIssued
        /\ last' = Call("admin", request, c, <<>>, secret, FALSE, out,
                        Ret(FALSE), RefreshRet(Null))
        /\ kvConfig' = out.config
        /\ kvGroups' = out.groups
        /\ issued' = tokens
      Returned(out) == Becomes(out, Record(out.token, secret))
  IN  Returned(handleAdminRequest(request, secret, adminPassword, now, g,
                                  kvConfig, kvGroups))

\* A request to /admin... arrives and handleAdminRequest runs to its end.
HandleAdminRequest ==
  /\ last.op = "idle"
  /\ \E g \in GroupTokens :
       \/ \E request \in LoginRequests : Handled(request, Absent, g)
       \/ \E c \in GateCandidates :
            \E request \in GatedRequests(c) : Handled(request, c, g)
  /\ UNCHANGED << secret, adminPassword, now >>

\* createJwt is called on its own with the process secret, as handleLogin
\* calls it, with or without a logger.
CreateCall ==
  /\ last.op = "idle"
  /\ \E logger \in BOOLEAN :
       LET Becomes(token, tokens) ==
             /\ Cardinality(tokens) <= MaxIssued
             /\ last' = Call("create", NoRequest, NoCandidate, <<>>, secret,
                             logger,
                             Outcome(~token.some, NoResponse, token, "create",
                                     FALSE, kvConfig, kvGroups),
                             Ret(FALSE), RefreshRet(Null))
             /\ issued' = tokens
           Returned(r) ==
             Becomes(IF r.ok THEN Some(r.v) ELSE Null,
                     IF r.ok THEN Record(Some(r.v), secret) ELSE issued)
       IN  Returned(createJwt(secret, <<>>, logger, now))
  /\ UNCHANGED << secret, adminPassword, now, kvConfig, kvGroups >>

\* verifyJwt is called on its own with the process secret.
VerifyCall ==
  /\ last.op = "idle"
  /\ \E c \in IssuedTokens \cup {Absent}, logger \in BOOLEAN :
       last' = Call("verify", NoRequest, c, <<>>, secret, logger, NoOutcome,
                    verifyJwt(secret, c.text, logger, now), RefreshRet(Null))
  /\ UNCHANGED << secret, adminPassword, now, kvConfig, kvGroups, issued >>

\* refreshJwt is called with the process secret.
RefreshCall ==
  /\ last.op = "idle"
  /\ \E c \in IssuedTokens \cup {Absent}, logger \in BOOLEAN :
       LET Becomes(r, tokens) ==
             /\ Cardinality(tokens) <= MaxIssued
             /\ last' = Call("refresh", NoRequest, c, <<>>, secret, logger,
                             NoOutcome, Ret(FALSE), r)
             /\ issued' = tokens
           Returned(r) == Becomes(r, Record(r.token, secret))
       IN  Returned(refreshJwt(secret, c.text, logger, now))
  /\ UNCHANGED << secret, adminPassword, now, kvConfig, kvGroups >>

\* The deployment's secret is changed (or removed).
SetSecret ==
  /\ last.op = "idle"
  /\ \E s \in (Secrets \cup { NoSecret }) \ { secret } : secret' = s
  /\ UNCHANGED << adminPassword, now, kvConfig, kvGroups, issued, last >>

\* Time passes.
Tick ==
  /\ last.op = "idle"
  /\ \E t \in Instants : t > now /\ now' = t
  /\ UNCHANGED << secret, adminPassword, kvConfig, kvGroups, issued, last >>

\* The call returns to its caller; nothing of it stays in the worker.
Complete ==
  /\ last.op # "idle"
  /\ last' = Idle
  /\ UNCHANGED << secret, adminPassword, now, kvConfig, kvGroups, issued >>

Next ==
  \/ HandleAdminRequest
  \/ CreateCall
  \/ VerifyCall
  \/ RefreshCall
  \/ SetSecret
  \/ Tick
  \/ Complete

Spec == Init /\ [][Next]_vars

(***************************************************************************)
(* The token functions on their own: createJwt and verifyJwt applied to    *)
(* inputs drawn from ClaimSets, the candidates and the altered tokens      *)
(***************************************************************************)

InitJwt ==
  /\ secret = K1
  /\ adminPassword = Password
  /\ now = StartTime
  /\ kvConfig = EmptyConfig
  /\ kvGroups = {}
  /\ issued = {}
  /\ last = Idle

\* createJwt(secret, claims, logger) by a caller that wants a session of
\* lifetime seconds: createJwt has no parameter that takes it.  The token
\* under test is its result.
JwtCreate ==
  /\ last.op = "idle"
  /\ \E claims \in ClaimSets, logger \in BOOLEAN, lifetime \in Lifetimes :
       LET Returned(r) ==
             /\ last' = WithLifetime(
                          Call("create", NoRequest, NoCandidate, claims, secret,
                               logger,
                               Outcome(~r.ok, NoResponse,
                                       IF r.ok THEN Some(r.v) ELSE Null,
                                       "create", FALSE, EmptyConfig, {}),
                               Ret(FALSE), RefreshRet(Null)),
                          lifetime)
             /\ issued' = IF r.ok THEN { IssuedRecord(r.v, secret) } ELSE issued
       IN  Returned(createJwt(secret, claims, logger, now))
  /\ UNCHANGED << secret, adminPassword, now, kvConfig, kvGroups >>

\* verifyJwt(s, token, logger) for any secret s.
JwtVerify ==
  /\ last.op = "idle"
  /\ \E s \in Secrets \cup { NoSecret }, c \in JwtCandidates,
        logger \in BOOLEAN :
       last' = Call("verify", NoRequest, c, <<>>, s, logger, NoOutcome,
                    verifyJwt(s, c.text, logger, now), RefreshRet(Null))
  /\ UNCHANGED << secret, adminPassword, now, kvConfig, kvGroups, issued >>

\* verifyJwt(s, token) of the simpler implementation for any secret s.
JwtVerifySimple ==
  /\ last.op = "idle"
  /\ \E s \in Secrets \cup { NoSecret }, c \in JwtCandidates :
       last' = Call("verifySimple", NoRequest, c, <<>>, s, FALSE, NoOutcome,
                    verifyJwtSimple(s, c.text, now), RefreshRet(Null))
  /\ UNCHANGED << secret, adminPassword, now, kvConfig, kvGroups, issued >>

\* verifyJwt on an issued token one character of which was replaced, with
\* the secret that signed it.
JwtVerifyTampered ==
  /\ last.op = "idle"
  /\ \E c \in TamperedTokens, logger \in BOOLEAN :
       last' = Call("verify", NoRequest, c, <<>>, c.signer, logger, NoOutcome,
                    verifyJwt(c.signer, c.text, logger, now), RefreshRet(Null))
  /\ UNCHANGED << secret, adminPassword, now, kvConfig, kvGroups, issued >>

\* refreshJwt(s, token, logger) for any secret s.
JwtRefresh ==
  /\ last.op = "idle"
  /\ \E s \in Secrets \cup { NoSecret }, c \in JwtCandidates,
        logger \in BOOLEAN :
       last' = Call("refresh", NoRequest, c, <<>>, s, logger, NoOutcome,
                    Ret(FALSE), refreshJwt(s, c.text, logger, now))
  /\ UNCHANGED << secret, adminPassword, now, kvConfig, kvGroups, issued >>

\* createAuthCookie(token, maxAge, { secure }) gives the Set-Cookie value
\* of a response, and getAuthCookie (of either implementation) reads the
\* Cookie header of a request that does or does not carry its name=value
\* pair.
JwtCookie ==
  /\ last.op = "idle"
  /\ \E c \in CookieTokens, maxAge \in MaxAges, secure \in BOOLEAN,
        simple \in BOOLEAN :
       LET Read(cookie) ==
             \E header \in HeadersWith(AttrText(cookie[1])) \cup HeadersWithout :
               last' = WithCookie(
                         Call(IF simple THEN "cookieSimple" ELSE "cookie",
                              Request("GET", << "admin" >>, header, NoBody),
                              c, <<>>, secret, FALSE,
                              Outcome(FALSE,
                                      createResponse("", 0, cookie, ""), Null,
                                      "cookie", FALSE, EmptyConfig, {}),
                              Ret(FALSE), RefreshRet(Null)),
                         maxAge, secure,
                         IF simple THEN getAuthCookieSimple(header)
                         ELSE getAuthCookie(header))
       IN  Read(createAuthCookie(c.text.s, maxAge, secure).v)
  /\ UNCHANGED << secret, adminPassword, now, kvConfig, kvGroups, issued >>

JwtTick ==
  /\ last.op = "idle"
  /\ \E t \in JwtInstants : t > now /\ now' = t
  /\ UNCHANGED << secret, adminPassword, kvConfig, kvGroups, issued, last >>

NextJwt ==
  \/ JwtCreate
  \/ JwtVerify
  \/ JwtVerifySimple
  \/ JwtVerifyTampered
  \/ JwtRefresh
  \/ JwtCookie
  \/ JwtTick
  \/ Complete

SpecJwt == InitJwt /\ [][NextJwt]_vars

(***************************************************************************)
(* Properties                                                              *)
(***************************************************************************)

\* The last call was a request other than the login request.
GatedCall ==
  /\ last.op = "admin"
  /\ ~(IsLoginPath(last.request.path) /\ last.request.method = "POST")

\* The gate let the last request through.
PassedGate == last.out.reached \in { "api", "page" }

\* The presented token was signed with the secret it is verified with.
SignedWithSecret ==
  /\ last.arg.kind \in { "issued", "crafted" }
  /\ last.arg.signer = last.argSecret

\* The presented token came from createJwt under the secret it is verified
\* with, and the time is within [iat, exp).
IssuedAndCurrent ==
  /\ last.arg.kind = "issued"
  /\ last.arg.signer = last.argSecret
  /\ IatOf(last.arg) <= now
  /\ now < ExpOf(last.arg)

\* C1: a token createJwt issued is accepted by every verification made
\* with the same secret at a time in [iat, exp), by verifyJwt called on its
\* own and by the gate, whatever logins, logouts, refreshes, verifications
\* and secret changes happened in between.
C1_AcceptedUntilExpiry ==
  IssuedAndCurrent =>
    /\ last.op = "verify" => last.vres = Ret(TRUE)
    /\ GatedCall => PassedGate

\* C1 witness: a token issued earlier is presented right after another
\* token was issued, and passes.
C1_Witness ==
  /\ GatedCall /\ IssuedAndCurrent /\ PassedGate
  /\ IatOf(last.arg) < now
  /\ Cardinality(issued) = 2

TamperedCall ==
  /\ last.op = "verify"
  /\ last.arg.kind = "tampered"
  /\ last.arg.signer = last.argSecret

\* C2: replacing any one character of the header, payload or signature
\* segment of an issued token by another character makes verifyJwt, called
\* with the secret the token was issued under, return false.
C2_AnyReplacementRejected == TamperedCall => last.vres = Ret(FALSE)

\* The presented token came from createJwt under another secret than the
\* one it is verified with.
IssuedUnderOtherSecret ==
  /\ last.arg.kind = "issued"
  /\ last.argSecret # NoSecret
  /\ last.arg.signer # last.argSecret

\* C3: a token issued under one secret is rejected with false by every
\* verification made with another secret, so after the process secret
\* changes every token issued before is refused by verifyJwt and by the
\* gate.
C3_WrongSecretRejected ==
  IssuedUnderOtherSecret =>
    /\ last.op = "verify" => last.vres = Ret(FALSE)
    /\ GatedCall => ~last.out.threw /\ last.out.reached = "reject"

\* C3 witness: the secret was changed and a token issued before is
\* presented at the gate.
C3_Witness ==
  /\ GatedCall /\ IssuedUnderOtherSecret
  /\ secret = last.argSecret
  /\ last.out.reached = "reject"

\* The payload of the presented token has exp, and exp > now.
ExpInFuture ==
  /\ HasKey(last.arg.payload, "exp")
  /\ GreaterThan(Get(last.arg.payload, "exp"), now)

\* C4: a correctly signed token is accepted only if its payload has exp
\* and exp > now; at now = exp, after it, or without exp, verifyJwt returns
\* false.
C4_ExpiryStrict ==
  (last.op = "verify" /\ SignedWithSecret) =>
    /\ last.vres.value => ExpInFuture
    /\ ~ExpInFuture => last.vres = Ret(FALSE)

\* The payload of the presented token has iat, and iat <= now.
IatNotInFuture ==
  /\ HasKey(last.arg.payload, "iat")
  /\ ~GreaterThan(Get(last.arg.payload, "iat"), now)

\* C5: a correctly signed token is accepted only if its payload has iat
\* and iat <= now; with iat > now or without iat, verifyJwt returns false.
C5_IssuedAtChecked ==
  (last.op = "verify" /\ SignedWithSecret) =>
    /\ last.vres.value => IatNotInFuture
    /\ ~IatNotInFuture => last.vres = Ret(FALSE)

\* The payload names this issuer and this audience.
IssuerAndAudienceMatch ==
  /\ Get(last.arg.payload, "iss") = Str(TOKEN_ISSUER)
  /\ Get(last.arg.payload, "aud") = Str(TOKEN_AUDIENCE)

\* C6: a correctly signed token within its lifetime whose iss is not
\* 'web-app' or whose aud is not 'web-app-users' (or lacks one of them)
\* makes verifyJwt return false.
C6_IssuerAudienceIsolation ==
  (last.op = "verify" /\ SignedWithSecret /\ ExpInFuture /\ IatNotInFuture
     /\ ~IssuerAndAudienceMatch)
    => last.vres = Ret(FALSE)

\* C7: no call of verifyJwt throws: called on its own it returns a
\* boolean, and handleAdminRequest never ends in an exception of verifyJwt.
C7_VerifyNeverThrows ==
  /\ last.op = "verify" => ~last.vres.threw
  /\ last.op = "admin" => last.out.reached # "verify"

\* C8: a request other than the login request reaches handleApiRequest or
\* renderAdminPage only if verifyJwt returns true for the token of its
\* cookie under the current secret, and when it does not, the stored
\* configuration and groups stay as they were.
C8_GateSafety ==
  [][ (last'.op = "admin"
        /\ ~(IsLoginPath(last'.request.path) /\ last'.request.method = "POST"))
      => LET v == verifyJwt(secret, getAuthCookie(last'.request.cookie),
                            FALSE, now)
         IN  /\ last'.out.reached \in { "api", "page" } => v = Ret(TRUE)
             /\ v # Ret(TRUE) => /\ kvConfig' = kvConfig
                                 /\ kvGroups' = kvGroups
                                 /\ last'.out.reached \notin { "api", "page" }
    ]_vars

\* C8 witness: a DELETE of a stored group arrived with a token that does
\* not verify, was refused, and the group is still stored.
C8_Witness ==
  /\ GatedCall
  /\ last.request.method = "DELETE"
  /\ last.arg.kind # "absent"
  /\ last.out.reached = "reject"
  /\ kvGroups = { "g1" }
  /\ kvConfig = NewConfig

\* The response to a request that is not authenticated.
RejectResponse ==
  createResponse("loginPage", 401,
                 << Attr("auth_token", InvalidText, 0, ""),
                    Attr("Path", <<>>, 0, "/admin"),
                    Attr("Max-Age", <<>>, 0, ""),
                    Attr("HttpOnly", <<>>, 0, "true"),
                    Attr("Secure", <<>>, 0, "true"),
                    Attr("SameSite", <<>>, 0, "Strict") >>,
                 HtmlType)

\* C9: with a secret configured, every request other than the login
\* request that does not pass the gate gets the one response of status
\* 401 with the login page and the cookie cleared, whichever check failed.
C9_UniformRejection ==
  (GatedCall /\ last.argSecret # NoSecret /\ ~PassedGate)
    => fetch(last.out) = RejectResponse

LoginCall ==
  /\ last.op = "admin"
  /\ IsLoginPath(last.request.path) /\ last.request.method = "POST"
  /\ last.request.body.json
  /\ last.argSecret # NoSecret

\* The auth_token and Max-Age attributes of a Set-Cookie value.
CookieAttr(setCookie, name) ==
  setCookie[CHOOSE i \in 1..Len(setCookie) : setCookie[i].name = name]

HasAttr(setCookie, name) ==
  \E i \in 1..Len(setCookie) : setCookie[i].name = name

\* C10: with a secret configured, a login with the right password gets a
\* 200 whose Set-Cookie carries a token of three non-empty segments and a
\* positive Max-Age; a login with a wrong password gets a 401 without
\* Set-Cookie; and a later request whose Cookie presents an issued token
\* before its exp, under the same secret, passes the gate.
C10_LoginEndToEnd ==
  /\ (LoginCall /\ last.request.body.password = adminPassword) =>
       LET r == fetch(last.out)
       IN  /\ r.status = 200
           /\ HasAttr(r.setCookie, "auth_token")
           /\ HasAttr(r.setCookie, "Max-Age")
           /\ LET parts == Split(CookieAttr(r.setCookie, "auth_token").chars, ".")
              IN  Len(parts) = 3 /\ \A i \in 1..3 : parts[i] # <<>>
           /\ CookieAttr(r.setCookie, "Max-Age").num > 0
           /\ last.out.token = Some(CookieAttr(r.setCookie, "auth_token").chars)
           /\ \E t \in issued : Some(t.token) = last.out.token
  /\ (LoginCall /\ last.request.body.password # adminPassword) =>
       /\ fetch(last.out).status = 401
       /\ fetch(last.out).setCookie = NoCookie
  /\ (GatedCall /\ IssuedAndCurrent) => PassedGate

\* C10 witness: the token of an earlier login is presented in the Cookie
\* header, some time after the login, and the admin page is served.
C10_Witness ==
  /\ GatedCall /\ IssuedAndCurrent
  /\ last.request.cookie = Some(COOKIE_NAME \o <<"=">> \o last.arg.text.s)
  /\ IatOf(last.arg) < now
  /\ fetch(last.out).status = 200
  /\ fetch(last.out).body = "adminPage"

\* The response sets the auth_token cookie with Max-Age=0.
ClearsSession(resp) ==
  /\ resp.setCookie # NoCookie
  /\ HasAttr(resp.setCookie, "auth_token")
  /\ HasAttr(resp.setCookie, "Max-Age")
  /\ CookieAttr(resp.setCookie, "Max-Age").num = 0

\* The last request was a logout that handleLogout answered.
LogoutAnswered ==
  /\ GatedCall /\ PassedGate
  /\ last.request.path = << "admin", "api", "logout" >>
  /\ last.request.method = "POST"

\* The last request went to verification, with a secret configured, and
\* did not pass.
VerificationFailed ==
  /\ GatedCall
  /\ last.argSecret # NoSecret
  /\ ~PassedGate

\* C11: the response to a logout and the response to every request whose
\* verification failed set the auth_token cookie with Max-Age=0, and no
\* other response does.
C11_SessionClearing ==
  last.op = "admin" =>
    (ClearsSession(fetch(last.out)) <=> (LogoutAnswered \/ VerificationFailed))

\* C12: when verifyJwt accepts a token createJwt issued, the value it
\* returns has every claim of the token's payload (the custom claims and
\* iat, exp, iss, aud) with the value the payload gives it.
C12_VerifyReturnsClaims ==
  (last.op = "verify" /\ IssuedAndCurrent) =>
    /\ ~last.vres.threw
    /\ \A i \in 1..Len(last.arg.payload) :
         Get(OwnProperties(last.vres.value), last.arg.payload[i].k)
           = last.arg.payload[i].v

StandardClaims == { "iat", "exp", "iss", "aud" }

\* C13: refreshJwt on a valid unexpired token returns a new token whose
\* payload has every custom claim of the old one with the same value.
C13_RefreshPreservesIdentity ==
  (last.op = "refresh" /\ IssuedAndCurrent) =>
    /\ last.rres.token.some
    /\ \A i \in 1..Len(last.arg.payload) :
         last.arg.payload[i].k \notin StandardClaims =>
           Get(PayloadOf(last.rres.token.s), last.arg.payload[i].k)
             = last.arg.payload[i].v

\* refreshJwt was called on a token createJwt issued, and returned a token.
RefreshedIssued ==
  /\ last.op = "refresh"
  /\ last.arg.kind = "issued"
  /\ ~last.rres.threw
  /\ last.rres.token.some

\* The iat of the token refreshJwt returned.
RefreshedIat == Get(PayloadOf(last.rres.token.s), "iat").n

\* C14, as stated: every refreshJwt call that succeeds on a token issued at
\* iat0, at any time in [iat0, exp0), returns a token whose iat is strictly
\* greater than iat0.
C14_RefreshIatStrictlyGreater ==
  (RefreshedIssued /\ IssuedAndCurrent) => RefreshedIat > IatOf(last.arg)

\* C14, amended: every refreshJwt call that succeeds on a token issued at
\* iat0 returns a token whose iat is the second of the call, which is never
\* before iat0 and is strictly greater than iat0 when the call is made in a
\* later second than the issuance.
C14_RefreshIatIsNow ==
  RefreshedIssued =>
    /\ RefreshedIat = now
    /\ RefreshedIat >= IatOf(last.arg)
    /\ now > IatOf(last.arg) => RefreshedIat > IatOf(last.arg)

\* C14 witness: a token is refreshed in a later second of its lifetime and
\* the new token has a greater iat.
C14_Witness ==
  /\ RefreshedIssued /\ IssuedAndCurrent
  /\ now > IatOf(last.arg)
  /\ RefreshedIat > IatOf(last.arg)

\* Verification of the presented token with the given secret does not
\* accept it.
VerificationFails ==
  verifyJwt(last.argSecret, last.arg.text, TRUE, now) # Ret(TRUE)

\* C15: when verification of the presented token fails (no token, a
\* malformed one, a signature that does not verify, an expired token, an
\* iat in the future, another issuer or audience, another or no secret),
\* refreshJwt never returns a token, and called with its logger it returns
\* null.
C15_RefreshInvalidReturnsNull ==
  (last.op = "refresh" /\ VerificationFails) =>
    /\ ~last.rres.token.some
    /\ last.logger => last.rres = RefreshRet(Null)

\* C15 witness: refreshJwt returned null for a correctly signed token that
\* has expired, the case in which verifyJwt itself ends in an exception.
C15_Witness ==
  /\ last.op = "refresh" /\ last.logger
  /\ SignedWithSecret
  /\ LessThan(Get(last.arg.payload, "exp"), now)
  /\ verifyJwt(last.argSecret, last.arg.text, FALSE, now) = Rejects
  /\ last.rres = RefreshRet(Null)

\* The standard claims of the token are the ones of an issuance at now.
FreshClaims(token) ==
  /\ Get(PayloadOf(token), "iat") = Num(now)
  /\ Get(PayloadOf(token), "exp") = Num(now + DEFAULT_EXPIRATION)
  /\ Get(PayloadOf(token), "iss") = Str(TOKEN_ISSUER)
  /\ Get(PayloadOf(token), "aud") = Str(TOKEN_AUDIENCE)

\* C16: whatever the custom claims, also when they name iat, exp, iss or
\* aud, the token createJwt returns has iat = now, exp = iat + the session
\* lifetime, iss = 'web-app' and aud = 'web-app-users', and so has the
\* token refreshJwt returns.
C16_StandardClaimsFresh ==
  /\ (last.op = "create" /\ last.out.token.some)
       => FreshClaims(last.out.token.s)
  /\ (last.op = "refresh" /\ last.rres.token.some)
       => FreshClaims(last.rres.token.s)

\* C16 witness: createJwt was given custom claims naming all four standard
\* claims and returned a token that keeps the other custom claims.
C16_Witness ==
  /\ last.op = "create" /\ last.out.token.some
  /\ \A k \in StandardClaims : HasKey(last.claims, k)
  /\ Get(last.claims, "iss") # Str(TOKEN_ISSUER)
  /\ Get(last.claims, "iat") # Num(now)

\* C17: a token issued by a caller asking for a lifetime of L seconds has
\* exp = iat + L: it is accepted at now = iat and rejected at every time
\* more than L seconds after iat.
C17_CallerLifetime ==
  (last.op = "create" /\ last.out.token.some) =>
    /\ Get(PayloadOf(last.out.token.s), "exp").n
         = Get(PayloadOf(last.out.token.s), "iat").n + last.lifetime
    /\ verifyJwt(last.argSecret, last.out.token, TRUE, now) = Ret(TRUE)
    /\ \A d \in 1..2 :
         verifyJwt(last.argSecret, last.out.token, TRUE,
                   now + last.lifetime + d) = Ret(FALSE)

\* 'auth_token=<token>; Path=/admin; Max-Age=<n>; HttpOnly; Secure;
\* SameSite=Strict', without '; Secure' when secure is disabled.
SetCookieFormat(token, n, secure) ==
  COOKIE_NAME \o << "=" >> \o token
    \o << ";"," ","P","a","t","h","=","/","a","d","m","i","n",
          ";"," ","M","a","x","-","A","g","e","=" >>
    \o NumberText(n)
    \o << ";"," ","H","t","t","p","O","n","l","y" >>
    \o (IF secure THEN << ";"," ","S","e","c","u","r","e" >> ELSE <<>>)
    \o << ";"," ","S","a","m","e","S","i","t","e","=","S","t","r","i","c","t" >>

\* C18: for every token and max-age n, the Set-Cookie value
\* createAuthCookie returns is exactly 'auth_token=<token>; Path=/admin;
\* Max-Age=<n>; HttpOnly; Secure; SameSite=Strict', and with secure
\* disabled the same without the Secure attribute.
C18_SetCookieFormat ==
  last.op = "cookie" =>
    JoinText(last.out.resp.setCookie)
      = SetCookieFormat(last.arg.text.s, last.maxAge, last.secure)

\* The text is three runs of base64url characters joined by two '.'.
IsCompactToken(token) ==
  /\ \A i \in 1..Len(token) : token[i] \in B64UrlSet \cup { "." }
  /\ Cardinality({ i \in 1..Len(token) : token[i] = "." }) = 2

\* The name=value pair of createAuthCookie(token, 3600, {}).
NameValuePair(token) == AttrText(createAuthCookie(token, 3600, TRUE).v[1])

\* C19: every token createJwt returns is made of base64url characters and
\* exactly two '.'; getAuthCookie returns exactly the token when the Cookie
\* header carries the name=value pair of createAuthCookie(token, 3600, {}),
\* alone or among other cookies, and null when there is no Cookie header
\* or no auth_token cookie in it.
C19_CookieRoundTrip ==
  /\ \A t \in issued : IsCompactToken(t.token)
  /\ (last.op = "cookie" /\ last.arg.kind = "issued"
        /\ last.request.cookie \in HeadersWith(NameValuePair(last.arg.text.s)))
       => last.cookie = last.arg.text
  /\ (last.op = "cookie" /\ last.request.cookie \in HeadersWithout)
       => last.cookie = Null

\* C19 witness: the token of a cookie made with max-age 3600 was read back
\* from a Cookie header that carries it between two other cookies.
C19_Witness ==
  /\ last.op = "cookie" /\ last.arg.kind = "issued"
  /\ last.maxAge = 3600
  /\ last.request.cookie
       = Some(OtherCookie1 \o << ";", " " >> \o NameValuePair(last.arg.text.s)
                \o << " ", ";", " " >> \o OtherCookie2)
  /\ last.cookie = last.arg.text
  /\ HasKey(last.arg.payload, "sub")

LoginCallWithoutSecret ==
  /\ last.op = "admin"
  /\ IsLoginPath(last.request.path) /\ last.request.method = "POST"
  /\ last.request.body.json
  /\ last.argSecret = NoSecret

\* C20: without a signing secret createJwt throws and returns no token,
\* and handleAdminRequest answers every /admin request, the login request
\* included, with status 500 and no Set-Cookie, not with the 401 response
\* of a failed verification.
C20_MissingSecret ==
  /\ (last.op = "create" /\ last.argSecret = NoSecret)
       => last.out.threw /\ ~last.out.token.some
  /\ (last.op = "admin" /\ last.argSecret = NoSecret)
       => /\ ~last.out.threw
          /\ last.out.resp.status = 500
          /\ last.out.resp.setCookie = NoCookie
          /\ last.out.token = Null
          /\ fetch(last.out) # RejectResponse

\* C20 witness: a login with the right password, without a secret, was
\* answered 500 by handleAdminRequest itself.
C20_Witness ==
  /\ LoginCallWithoutSecret
  /\ last.request.body.password = adminPassword
  /\ last.out.reached = "config"
  /\ fetch(last.out).status = 500

\* A call of verifyJwt, of either implementation; the richer one is given
\* a logger.
VerifyCallOfEither ==
  \/ last.op = "verify" /\ last.logger
  \/ last.op = "verifySimple"

\* The text splits on '.' into exactly three segments, none of them empty.
ThreeSegments(text) ==
  LET Shape(parts) ==
        Len(parts) = 3 /\ \A i \in 1..Len(parts) : parts[i] # <<>>
  IN  Shape(Split(text, "."))

\* C21: verifyJwt rejects with false every token that does not split on
\* '.' into exactly three non-empty segments; in particular a valid token
\* with one or more further '.'-separated segments appended is rejected.
C21_ThreeSegmentShape ==
  (VerifyCallOfEither /\ last.arg.text.some
     /\ ~ThreeSegments(last.arg.text.s))
    => last.vres = Ret(FALSE)

\* Where the signature segment of a three-segment token starts.
SignatureStart(token) ==
  LET Start(parts) == Len(parts[1]) + Len(parts[2]) + 3
  IN  Start(Split(token, "."))

\* The presented token has three non-empty segments and a signature that
\* decodes but does not verify under the secret of the call: it was signed
\* with another secret, or a character of its header or payload segment
\* was replaced after signing.
SignatureDoesNotVerify ==
  /\ last.op \in { "verify", "verifySimple" }
  /\ last.argSecret # NoSecret
  /\ \/ /\ last.arg.kind \in { "issued", "crafted", "notjson" }
        /\ last.arg.signer # last.argSecret
     \/ /\ last.arg.kind = "tampered"
        /\ last.arg.pos < SignatureStart(last.arg.orig) - 1

\* C22: verifyJwt decodes the payload segment and examines its claims only
\* after the HMAC signature over 'header.payload' has verified: a token
\* whose signature does not verify is rejected with false at the signature
\* check, with or without a logger, whatever its payload holds (expired
\* claims, text that is not JSON, an altered segment).
C22_SignatureBeforeClaims == SignatureDoesNotVerify => last.vres = Ret(FALSE)

\* C22 witness: the richer verifyJwt, called without a logger, returned
\* false for a token signed with another secret whose payload is not JSON;
\* under its own secret the same call rejects its promise, because there
\* the payload is parsed.
C22_Witness ==
  /\ SignatureDoesNotVerify
  /\ last.op = "verify" /\ ~last.logger
  /\ last.arg.kind = "notjson"
  /\ last.vres = Ret(FALSE)
  /\ verifyJwt(last.arg.signer, last.arg.text, FALSE, now) = Rejects

\* getAuthCookie, of either implementation, read a Cookie header that
\* carries the pair 'auth_token=V', alone or among other cookies.
CookieReadCall ==
  /\ last.op \in { "cookie", "cookieSimple" }
  /\ last.request.cookie
       \in HeadersWith(COOKIE_NAME \o <<"=">> \o last.arg.text.s)

\* C23: getAuthCookie returns the whole remainder of the auth_token cookie
\* after the first '=': for a cookie 'auth_token=V' where V itself holds
\* '=' characters the value returned is V, not a prefix of V.
C23_CookieValueVerbatim ==
  CookieReadCall => last.cookie = Some(Trim(last.arg.text.s))

\* The call accepted the token: it returned a truthy value.
Accepts(r) == ~r.threw /\ r.value

\* C24: for every token the richer createJwt issued with an empty set of
\* custom claims, and every secret and time of verification, the simpler
\* verifyJwt and the richer verifyJwt both accept or both reject, also in
\* the second now == exp.
C24_ImplementationsAgree ==
  (last.op = "verifySimple" /\ last.arg.kind = "issued"
     /\ Len(last.arg.payload) = 4)
    => \A logger \in BOOLEAN :
         Accepts(last.vres)
           = Accepts(verifyJwt(last.argSecret, last.arg.text, logger, now))

====
